---- MODULE Spec2Model ----
(***************************************************************************)
(* Model of the climate-index financial-performance t-test scripts:        *)
(*   t_tests.py                 the refactored pipeline (main and helpers) *)
(*   t_test_exclude_index.py    subject-vs-others Welch tests (script)     *)
(*   t_test_pre_post_2016.py    pre/post-2016 regression tests (script)    *)
(*                                                                         *)
(* Three specifications share the operators that model the functions:      *)
(*   Spec       one run of main() over a bounded panel                     *)
(*   SpecWelch  one call of perform_ttests over two bounded tables         *)
(*   SpecReg    one call of perform_t_tests_sm over bounded ticker groups  *)
(*                                                                         *)
(* Numbers.  The statistics are rational functions of the sample sums, so  *)
(* a float is kept exactly:                                                *)
(*   [kind |-> "real", sign, sq_num, sq_den]  the value sign*sqrt(num/den) *)
(*   [kind |-> "inf", sign]                   +inf / -inf (x / 0, x # 0)   *)
(*   [kind |-> "nan"]                         NaN (0 / 0, or NaN operand)  *)
(*   [kind |-> "tail", ...]                   a two-sided Student-t tail   *)
(*                                            probability strictly inside  *)
(*                                            (0, 1), kept symbolically    *)
(*   [kind |-> "noise"]                       a finite float that is pure  *)
(*                                            rounding error               *)
(* and the string placed in a numeric field is                             *)
(*   [kind |-> "str", text |-> "insufficient data"].                       *)
(***************************************************************************)
EXTENDS Integers, Sequences, FiniteSets, TLC

VARIABLES
    pc,                           \* position in main() / in the single call
    data,                         \* main: the loaded table
    data_filtered,                \* main: result of filter_data
    data_alv, data_tte, data_others,
    ttest_results_alv_vs_others,
    ttest_results_tte_vs_others,
    ttest_results_sm,
    df_results,
    output,                       \* main: files written to the output folder
    message,                      \* main: what the except clauses printed
    data1, data2,                 \* SpecWelch: arguments of perform_ttests
    grouped_data,                 \* SpecReg: argument of perform_t_tests_sm
    fp_residue,                   \* SpecReg: per ticker, did rounding leave a residual
    ret                           \* SpecWelch / SpecReg: the value returned

vars == <<pc, data, data_filtered, data_alv, data_tte, data_others,
          ttest_results_alv_vs_others, ttest_results_tte_vs_others,
          ttest_results_sm, df_results, output, message,
          data1, data2, grouped_data, fp_residue, ret>>

(***************************************************************************)
(* Bounds of the model and constants of the program                        *)
(***************************************************************************)
\* metric values of a table are drawn from 0 .. MaxVal (and missing)
MaxVal == 1
\* longest table handed to perform_ttests in SpecWelch
MaxLen == 3
\* most rows of the panel that main() loads in Spec
MaxRows == 4
\* the year from which pre_post_2016 is 1
BreakYear == 2016

\* a variable a specification does not use
None == [kind |-> "none"]

\* a blank cell (pandas NaN) is the empty sequence, a value v is <<v>>
NA == <<>>

Cell(v) == <<v>>

metrics == <<"ROE (%)", "Net Profit Margin (%)", "Revenue Growth (%)">>

MetricSet == {metrics[i] : i \in 1..Len(metrics)}

\* the reserved subjects of the subject-vs-others comparison
Subjects == {"ALV.DE", "TTE.PA"}

\* every ticker of the model, in the order sorted() gives (groupby sorts its keys)
TickerOrder == <<"A", "ALV.DE", "B", "BMW.DE", "TTE.PA">>

(***************************************************************************)
(* Arithmetic                                                              *)
(***************************************************************************)
Sign(x) == IF x < 0 THEN -1 ELSE IF x = 0 THEN 0 ELSE 1

RECURSIVE Gcd(_, _)
Gcd(a, b) == IF b = 0 THEN a ELSE Gcd(b, a % b)

RECURSIVE SumSeq(_)
SumSeq(s) == IF s = <<>> THEN 0 ELSE Head(s) + SumSeq(Tail(s))

SumSq(s) == SumSeq([i \in 1..Len(s) |-> s[i] * s[i]])

NaN == [kind |-> "nan"]

Inf(s) == [kind |-> "inf", sign |-> s]

Noise == [kind |-> "noise"]

\* the float s * sqrt(n / d), n >= 0, d > 0, in lowest terms
Exact(s, n, d) ==
    IF n = 0 THEN [kind |-> "real", sign |-> 0, sq_num |-> 0, sq_den |-> 1]
    ELSE LET g == Gcd(n, d)
         IN [kind |-> "real", sign |-> s, sq_num |-> n \div g, sq_den |-> d \div g]

Zero == Exact(0, 0, 1)

One == Exact(1, 1, 1)

INSUFFICIENT == [kind |-> "str", text |-> "insufficient data"]

IsFloat(x) == x.kind \in {"real", "inf", "nan", "tail", "noise"}

IsFinite(x) == x.kind \in {"real", "tail", "noise"}

(***************************************************************************)
(* pandas: tables are [columns, rows], a row is a function column -> cell  *)
(***************************************************************************)
\* table[column]
Column(table, c) == [i \in 1..Len(table.rows) |-> table.rows[i][c]]

\* Series.dropna(), as the values that are left
dropna(series) ==
    LET kept == SelectSeq(series, LAMBDA v : v # NA)
    IN [i \in 1..Len(kept) |-> kept[i][1]]

\* Series.notnull().sum()
notnull_sum(series) == Cardinality({i \in 1..Len(series) : series[i] # NA})

(***************************************************************************)
(* scipy.stats: the two-sided p-value of a t statistic with df = dfn/dfd   *)
(***************************************************************************)
two_sided_p(t, dfn, dfd) ==
    IF t.kind = "nan" \/ dfn <= 0 THEN NaN
    ELSE IF t.kind = "inf" THEN Zero
    ELSE IF t.kind = "noise" THEN Noise
    ELSE IF t.sq_num = 0 THEN One
    ELSE LET g == Gcd(dfn, dfd)
         IN [kind |-> "tail", sq_num |-> t.sq_num, sq_den |-> t.sq_den,
             df_num |-> dfn \div g, df_den |-> dfd \div g]

(***************************************************************************)
(* stats.ttest_ind(a, b, equal_var=False), len(a) > 1 and len(b) > 1:      *)
(*   t  = (mean a - mean b) / sqrt(var a / n1 + var b / n2)                *)
(*   df = Welch-Satterthwaite, 1 where it is undefined                     *)
(* with Ai = ni * sum(x^2) - sum(x)^2 = ni * (ni - 1) * var.  The division *)
(* runs with the floating-point errors ignored: x / 0 is inf, 0 / 0 NaN.   *)
(***************************************************************************)
\* variant: a division that answers 0 for 0 / 0
np_divide_zero_safe(s, n, d) ==
    IF d = 0 THEN (IF n = 0 THEN Zero ELSE Inf(s)) ELSE Exact(s, n, d)

\* np.divide(d, denom) on the float s * sqrt(n / d)
np_divide(s, n, d) ==
    IF d = 0 THEN (IF n = 0 THEN NaN ELSE Inf(s)) ELSE Exact(s, n, d)

ttest_ind(a, b) ==
    LET n1 == Len(a)
        n2 == Len(b)
        S1 == SumSeq(a)
        S2 == SumSeq(b)
        A1 == n1 * SumSq(a) - S1 * S1
        A2 == n2 * SumSq(b) - S2 * S2
        D == S1 * n2 - S2 * n1
        p1 == n1 * n1 * (n1 - 1)
        p2 == n2 * n2 * (n2 - 1)
        den == A1 * p2 + A2 * p1
        t == np_divide(Sign(D), D * D * (n1 - 1) * (n2 - 1), den)
        dfn == IF den = 0 THEN 1 ELSE den * den * (n1 - 1) * (n2 - 1)
        dfd == IF den = 0 THEN 1
               ELSE A1 * A1 * p2 * p2 * (n2 - 1) + A2 * A2 * p1 * p1 * (n1 - 1)
    IN [t_stat |-> t, p_value |-> two_sided_p(t, dfn, dfd)]

(***************************************************************************)
(* perform_ttests(data1, data2, metrics): one entry per metric, in the     *)
(* order of the metrics (a dict keeps insertion order)                     *)
(***************************************************************************)
\* variant: a guard that is content with one table of two values
enough_for_ttest_loose(n1, n2) == n1 > 1 \/ n2 > 1

enough_for_ttest(n1, n2) == n1 > 1 /\ n2 > 1

perform_ttests(d1, d2, ms) ==
    [i \in 1..Len(ms) |->
        LET data1_metric == dropna(Column(d1, ms[i]))
            data2_metric == dropna(Column(d2, ms[i]))
        IN IF enough_for_ttest(Len(data1_metric), Len(data2_metric))
           THEN LET r == ttest_ind(data1_metric, data2_metric)
                IN [metric |-> ms[i], t_stat |-> r.t_stat, p_value |-> r.p_value]
           ELSE [metric |-> ms[i], t_stat |-> INSUFFICIENT, p_value |-> INSUFFICIENT]]

(***************************************************************************)
(* sm.add_constant(series): has_constant = 'skip' returns the data as it   *)
(* is when it already holds a constant column that is not zero, so a group *)
(* whose pre_post_2016 is all 1 gets a design matrix of one column.        *)
(***************************************************************************)
add_constant_skips(x) ==
    Len(x) > 0 /\ \A i \in 1..Len(x) : x[i] = 1

(***************************************************************************)
(* sm.OLS(y, add_constant(x)).fit(), then tvalues[1] and pvalues[1].       *)
(* y is the metric column with its blanks (missing = 'none' checks and     *)
(* drops nothing), x the 0/1 indicator.  residue says whether rounding     *)
(* left a non-zero residual where the exact residual is zero.              *)
(*   one column          : tvalues[1] is out of range and raises           *)
(*   a blank in y        : every parameter is NaN                          *)
(*   x all 0             : rank 1, slope 0 with standard error 0, 0/0      *)
(*   n0 pre, n1 post     : t^2 = D^2 (n-2) / (n * ssrN), df = n - 2, with  *)
(*                         D = S1 n0 - S0 n1 and ssrN = n0 n1 * ssr        *)
(*   n = 2               : scale = ssr / 0 is NaN or inf, p is NaN (df 0)  *)
(***************************************************************************)
OLS_break_test(y, x, residue) ==
    IF add_constant_skips(x) THEN [kind |-> "raise"]
    ELSE IF \E i \in 1..Len(y) : y[i] = NA
    THEN [kind |-> "fit", t_stat |-> NaN, p_value |-> NaN]
    ELSE LET n == Len(y)
             pre == SelectSeq([i \in 1..n |-> <<x[i], y[i][1]>>], LAMBDA r : r[1] = 0)
             post == SelectSeq([i \in 1..n |-> <<x[i], y[i][1]>>], LAMBDA r : r[1] = 1)
             y0 == [i \in 1..Len(pre) |-> pre[i][2]]
             y1 == [i \in 1..Len(post) |-> post[i][2]]
             n0 == Len(y0)
             n1 == Len(y1)
             S0 == SumSeq(y0)
             S1 == SumSeq(y1)
             A0 == n0 * SumSq(y0) - S0 * S0
             A1 == n1 * SumSq(y1) - S1 * S1
             D == S1 * n0 - S0 * n1
             ssrN == n1 * A0 + n0 * A1
             t == Exact(Sign(D), D * D * (n - 2), n * ssrN)
         IN IF n1 = 0
            THEN [kind |-> "fit", t_stat |-> NaN, p_value |-> NaN]
            ELSE IF n = 2
            THEN [kind |-> "fit", t_stat |-> IF residue THEN Zero ELSE NaN,
                  p_value |-> NaN]
            ELSE IF ssrN = 0
            THEN (IF residue
                  THEN [kind |-> "fit", t_stat |-> Noise, p_value |-> Noise]
                  ELSE IF D = 0
                  THEN [kind |-> "fit", t_stat |-> NaN, p_value |-> NaN]
                  ELSE [kind |-> "fit", t_stat |-> Inf(Sign(D)), p_value |-> Zero])
            ELSE [kind |-> "fit", t_stat |-> t, p_value |-> two_sided_p(t, n - 2, 1)]

(***************************************************************************)
(* filter_data(data): what it returns, and the caller's table after it     *)
(***************************************************************************)
pre_post_2016(year) == IF year >= BreakYear THEN 1 ELSE 0

\* variant: drop and assign on the caller's table (inplace=True)
filter_data_in_place(d) ==
    LET out == [columns |-> (d.columns \ {"in_index6"}) \cup {"pre_post_2016"},
                rows |-> [i \in 1..Len(d.rows) |->
                    [c \in (d.columns \ {"in_index6"}) \cup {"pre_post_2016"} |->
                        IF c = "pre_post_2016"
                        THEN pre_post_2016(d.rows[i]["year"])
                        ELSE d.rows[i][c]]]]
    IN [returned |-> out, argument |-> out]

filter_data(d) ==
    LET kept == d.columns \ {"in_index6"}
        data_dropped == [columns |-> kept,
                         rows |-> [i \in 1..Len(d.rows) |->
                                      [c \in kept |-> d.rows[i][c]]]]
        with_indicator ==
            [columns |-> kept \cup {"pre_post_2016"},
             rows |-> [i \in 1..Len(data_dropped.rows) |->
                 [c \in kept \cup {"pre_post_2016"} |->
                     IF c = "pre_post_2016"
                     THEN pre_post_2016(data_dropped.rows[i]["year"])
                     ELSE data_dropped.rows[i][c]]]]
    IN [returned |-> with_indicator, argument |-> d]

(***************************************************************************)
(* The three slices main() takes of the filtered table                     *)
(***************************************************************************)
select_ticker(table, ticker) ==
    [columns |-> table.columns,
     rows |-> SelectSeq(table.rows, LAMBDA r : r["ticker"] = ticker)]

\* variant: others as the complement of one subject only
select_others_only_alv(table) ==
    [columns |-> table.columns,
     rows |-> SelectSeq(table.rows, LAMBDA r : r["ticker"] \notin {"ALV.DE"})]

select_others(table) ==
    [columns |-> table.columns,
     rows |-> SelectSeq(table.rows, LAMBDA r : r["ticker"] \notin {"ALV.DE", "TTE.PA"})]

(***************************************************************************)
(* table.groupby("ticker"): the groups in the sorted order of their keys   *)
(***************************************************************************)
groupby_ticker(table) ==
    LET present == SelectSeq(TickerOrder,
                       LAMBDA k : \E i \in 1..Len(table.rows) : table.rows[i]["ticker"] = k)
    IN [i \in 1..Len(present) |->
           [ticker |-> present[i], group |-> select_ticker(table, present[i])]]

(***************************************************************************)
(* perform_t_tests_sm(grouped_data, metrics): [raised, value]; value is    *)
(* the dict ticker -> metric -> outcome as the sequence of its insertions  *)
(***************************************************************************)
\* variant: a guard that asks for three values
enough_for_regression_wrong(count) == count > 2

enough_for_regression(count) == count > 1

regression_outcome(group, metric, residue) ==
    IF enough_for_regression(notnull_sum(Column(group, metric)))
    THEN OLS_break_test(Column(group, metric), Column(group, "pre_post_2016"), residue)
    ELSE [kind |-> "fit", t_stat |-> INSUFFICIENT, p_value |-> INSUFFICIENT]

perform_t_tests_sm(grouped, ms, residue) ==
    LET entry(g) ==
            [ticker |-> g.ticker,
             results |-> [j \in 1..Len(ms) |->
                 LET o == regression_outcome(g.group, ms[j], residue[g.ticker])
                 IN IF o.kind = "raise" THEN o
                    ELSE [metric |-> ms[j], t_stat |-> o.t_stat, p_value |-> o.p_value]]]
        all == [i \in 1..Len(grouped) |-> entry(grouped[i])]
        raised == \E i \in 1..Len(all) : \E j \in 1..Len(ms) :
                      "kind" \in DOMAIN all[i].results[j]
    IN [raised |-> raised, value |-> IF raised THEN None ELSE all]

(***************************************************************************)
(* convert_results_to_dataframe(ttest_results_sm): one row appended per    *)
(* metric of each ticker, tickers outermost                                *)
(***************************************************************************)
RECURSIVE Flatten(_)
Flatten(ss) == IF ss = <<>> THEN <<>> ELSE Head(ss) \o Flatten(Tail(ss))

\* variant: only the numeric outcomes become rows
ticker_rows_skip_strings(entry) ==
    LET kept == SelectSeq(entry.results, LAMBDA v : v.t_stat # INSUFFICIENT)
    IN [j \in 1..Len(kept) |->
           [Ticker |-> entry.ticker, Metric |-> kept[j].metric,
            TStatistic |-> kept[j].t_stat, PValue |-> kept[j].p_value]]

ticker_rows(entry) ==
    [j \in 1..Len(entry.results) |->
        [Ticker |-> entry.ticker, Metric |-> entry.results[j].metric,
         TStatistic |-> entry.results[j].t_stat,
         PValue |-> entry.results[j].p_value]]

\* variant: metrics outermost, tickers within a metric
rows_by_metric(results) ==
    LET ms == IF results = <<>> THEN <<>>
              ELSE [j \in 1..Len(results[1].results) |-> results[1].results[j].metric]
    IN Flatten([j \in 1..Len(ms) |->
           [i \in 1..Len(results) |-> ticker_rows(results[i])[j]]])

rows_by_ticker(results) ==
    Flatten([i \in 1..Len(results) |-> ticker_rows(results[i])])

convert_results_to_dataframe(results) ==
    [columns |-> {"Ticker", "Metric", "T-Statistic", "P-Value"},
     rows |-> rows_by_ticker(results)]

(***************************************************************************)
(* plot_results(dfs, output_folder): per metric a bar chart, then the png  *)
(* and the csv.  ax.bar raises TypeError on heights that mix strings and   *)
(* floats (an all-string column is drawn as categories), which ends the    *)
(* loop before that metric's files are written.                            *)
(***************************************************************************)
bar_raises(df) ==
    /\ \E i \in 1..Len(df.rows) : df.rows[i].TStatistic.kind = "str"
    /\ \E i \in 1..Len(df.rows) : df.rows[i].TStatistic.kind # "str"

metric_files(metric) ==
    <<[stem |-> metric, suffix |-> "_t_statistic", ext |-> "png"],
      [stem |-> metric, suffix |-> "_t_statistic", ext |-> "csv"]>>

RECURSIVE plot_loop(_, _)
plot_loop(dfs, k) ==
    IF k > Len(dfs) THEN [raised |-> FALSE, files |-> <<>>]
    ELSE IF bar_raises(dfs[k].df) THEN [raised |-> TRUE, files |-> <<>>]
    ELSE LET rest == plot_loop(dfs, k + 1)
         IN [raised |-> rest.raised,
             files |-> metric_files(dfs[k].metric) \o rest.files]

plot_results(dfs) == plot_loop(dfs, 1)

\* dfs = {metric: df_results[df_results["Metric"] == metric] for metric in metrics}
split_by_metric(df, ms) ==
    [k \in 1..Len(ms) |->
        [metric |-> ms[k],
         df |-> [columns |-> df.columns,
                 rows |-> SelectSeq(df.rows, LAMBDA r : r.Metric = ms[k])]]]

(***************************************************************************)
(* The tables the specifications start from                                *)
(***************************************************************************)
InputColumns == {"ticker", "year", "in_index6"} \cup MetricSet

\* the metric cells of a row: the three metrics with one value, or ROE blank
Profiles(values) ==
    {[m \in MetricSet |-> Cell(v)] : v \in values}
        \cup {[m \in MetricSet |-> IF m = metrics[1] THEN NA ELSE Cell(0)]}

InputRow(ticker, year, cells) ==
    [c \in InputColumns |->
        CASE c = "ticker" -> ticker
          [] c = "year" -> year
          [] c = "in_index6" -> IF ticker \in Subjects THEN 0 ELSE 1
          [] OTHER -> cells[c]]

\* the rows of the chosen (ticker, year) slots, in the order of the slots
PanelOf(slots, chosen, cells) ==
    LET present == SelectSeq(slots, LAMBDA s : s \in chosen)
    IN [columns |-> InputColumns,
        rows |-> [i \in 1..Len(present) |->
                     InputRow(present[i][1], present[i][2], cells[present[i]])]]

MainSlots ==
    <<<<"ALV.DE", BreakYear - 1>>, <<"ALV.DE", BreakYear>>, <<"ALV.DE", BreakYear + 1>>,
      <<"BMW.DE", BreakYear - 1>>, <<"BMW.DE", BreakYear>>, <<"BMW.DE", BreakYear + 1>>,
      <<"TTE.PA", BreakYear - 1>>, <<"TTE.PA", BreakYear>>, <<"TTE.PA", BreakYear + 1>>>>

SlotSet(slots) == {slots[i] : i \in 1..Len(slots)}

Panels(slots, most, values) ==
    {PanelOf(slots, chosen, cells) :
        <<chosen, cells>> \in
            UNION {{<<ch, ce>> : ce \in [ch -> Profiles(values)]} :
                      ch \in {c \in SUBSET SlotSet(slots) : Cardinality(c) <= most}}}

(***************************************************************************)
(* main()                                                                   *)
(***************************************************************************)
Init ==
    /\ pc = "filter_data"
    /\ data \in Panels(MainSlots, MaxRows, {0, 1})
    /\ data_filtered = None
    /\ data_alv = None
    /\ data_tte = None
    /\ data_others = None
    /\ ttest_results_alv_vs_others = None
    /\ ttest_results_tte_vs_others = None
    /\ ttest_results_sm = None
    /\ df_results = None
    /\ output = <<>>
    /\ message = ""
    /\ data1 = None
    /\ data2 = None
    /\ grouped_data = None
    /\ fp_residue = None
    /\ ret = None

unused == <<data1, data2, grouped_data, fp_residue, ret>>

\* data_filtered = filter_data(data)
FilterData ==
    /\ pc = "filter_data"
    /\ LET r == filter_data(data)
       IN /\ data_filtered' = r.returned
          /\ data' = r.argument
    /\ pc' = "partition"
    /\ UNCHANGED <<data_alv, data_tte, data_others, ttest_results_alv_vs_others,
                   ttest_results_tte_vs_others, ttest_results_sm, df_results,
                   output, message, unused>>

\* data_alv, data_tte, data_others
Partition ==
    /\ pc = "partition"
    /\ data_alv' = select_ticker(data_filtered, "ALV.DE")
    /\ data_tte' = select_ticker(data_filtered, "TTE.PA")
    /\ data_others' = select_others(data_filtered)
    /\ pc' = "ttests_alv"
    /\ UNCHANGED <<data, data_filtered, ttest_results_alv_vs_others,
                   ttest_results_tte_vs_others, ttest_results_sm, df_results,
                   output, message, unused>>

TtestsAlv ==
    /\ pc = "ttests_alv"
    /\ ttest_results_alv_vs_others' = perform_ttests(data_alv, data_others, metrics)
    /\ pc' = "ttests_tte"
    /\ UNCHANGED <<data, data_filtered, data_alv, data_tte, data_others,
                   ttest_results_tte_vs_others, ttest_results_sm, df_results,
                   output, message, unused>>

TtestsTte ==
    /\ pc = "ttests_tte"
    /\ ttest_results_tte_vs_others' = perform_ttests(data_tte, data_others, metrics)
    /\ pc' = "write_ttests"
    /\ UNCHANGED <<data, data_filtered, data_alv, data_tte, data_others,
                   ttest_results_alv_vs_others, ttest_results_sm, df_results,
                   output, message, unused>>

\* the two to_csv calls
WriteTtests ==
    /\ pc = "write_ttests"
    /\ output' = output \o
           <<[stem |-> "ALV.DE", suffix |-> "_vs_Others_Results", ext |-> "csv"],
             [stem |-> "TTE.PA", suffix |-> "_vs_Others_Results", ext |-> "csv"]>>
    /\ pc' = "t_tests_sm"
    /\ UNCHANGED <<data, data_filtered, data_alv, data_tte, data_others,
                   ttest_results_alv_vs_others, ttest_results_tte_vs_others,
                   ttest_results_sm, df_results, message, unused>>

\* grouped_data = data_filtered.groupby("ticker"); perform_t_tests_sm(...);
\* an exception is caught by "except Exception" and ends main
TTestsSm ==
    /\ pc = "t_tests_sm"
    /\ LET grouped == groupby_ticker(data_filtered)
       IN \E residue \in [{grouped[i].ticker : i \in 1..Len(grouped)} -> BOOLEAN] :
            LET r == perform_t_tests_sm(grouped, metrics, residue)
            IN IF r.raised
               THEN /\ pc' = "failed"
                    /\ message' = "An error occurred"
                    /\ UNCHANGED ttest_results_sm
               ELSE /\ pc' = "convert"
                    /\ ttest_results_sm' = r.value
                    /\ UNCHANGED message
    /\ UNCHANGED <<data, data_filtered, data_alv, data_tte, data_others,
                   ttest_results_alv_vs_others, ttest_results_tte_vs_others,
                   df_results, output, unused>>

Convert ==
    /\ pc = "convert"
    /\ df_results' = convert_results_to_dataframe(ttest_results_sm)
    /\ pc' = "plot"
    /\ UNCHANGED <<data, data_filtered, data_alv, data_tte, data_others,
                   ttest_results_alv_vs_others, ttest_results_tte_vs_others,
                   ttest_results_sm, output, message, unused>>

\* dfs = {...}; plot_results(dfs, output_folder)
PlotResults ==
    /\ pc = "plot"
    /\ LET r == plot_results(split_by_metric(df_results, metrics))
       IN /\ output' = output \o r.files
          /\ pc' = IF r.raised THEN "failed" ELSE "done"
          /\ message' = IF r.raised THEN "An error occurred" ELSE message
    /\ UNCHANGED <<data, data_filtered, data_alv, data_tte, data_others,
                   ttest_results_alv_vs_others, ttest_results_tte_vs_others,
                   ttest_results_sm, df_results, unused>>

Next ==
    \/ FilterData
    \/ Partition
    \/ TtestsAlv
    \/ TtestsTte
    \/ WriteTtests
    \/ TTestsSm
    \/ Convert
    \/ PlotResults

Spec == Init /\ [][Next]_vars

(***************************************************************************)
(* One call of perform_ttests(data1, data2, metrics)                       *)
(***************************************************************************)
\* ROE drawn freely, net profit margin always 0, revenue growth always blank
WelchRows ==
    {[m \in MetricSet |->
         IF m = metrics[1] THEN c ELSE IF m = metrics[2] THEN Cell(0) ELSE NA] :
            c \in {NA} \cup {Cell(v) : v \in 0..MaxVal}}

WelchTables ==
    {[columns |-> MetricSet, rows |-> rs] :
        rs \in UNION {[1..n -> WelchRows] : n \in 0..MaxLen}}

main_unused == <<data, data_filtered, data_alv, data_tte, data_others,
                 ttest_results_alv_vs_others, ttest_results_tte_vs_others,
                 ttest_results_sm, df_results, output, message>>

InitWelch ==
    /\ pc = "call"
    /\ data1 \in WelchTables
    /\ data2 \in WelchTables
    /\ ret = None
    /\ grouped_data = None
    /\ fp_residue = None
    /\ data = None
    /\ data_filtered = None
    /\ data_alv = None
    /\ data_tte = None
    /\ data_others = None
    /\ ttest_results_alv_vs_others = None
    /\ ttest_results_tte_vs_others = None
    /\ ttest_results_sm = None
    /\ df_results = None
    /\ output = <<>>
    /\ message = ""

CallPerformTtests ==
    /\ pc = "call"
    /\ ret' = perform_ttests(data1, data2, metrics)
    /\ pc' = "returned"
    /\ UNCHANGED <<data1, data2, grouped_data, fp_residue, main_unused>>

NextWelch == CallPerformTtests

SpecWelch == InitWelch /\ [][NextWelch]_vars

(***************************************************************************)
(* One call of perform_t_tests_sm(grouped_data, metrics)                   *)
(***************************************************************************)
RegSlots ==
    <<<<"BMW.DE", BreakYear - 2>>, <<"BMW.DE", BreakYear - 1>>,
      <<"BMW.DE", BreakYear>>, <<"BMW.DE", BreakYear + 1>>>>

\* the end-to-end panel of the specification: A rises over the break, B does not
ScenarioPanel ==
    [columns |-> InputColumns,
     rows |-> <<InputRow("A", BreakYear - 1, [m \in MetricSet |-> Cell(10)]),
                InputRow("A", BreakYear + 1, [m \in MetricSet |-> Cell(20)]),
                InputRow("B", BreakYear - 1, [m \in MetricSet |-> Cell(5)]),
                InputRow("B", BreakYear + 1, [m \in MetricSet |-> Cell(5)])>>]

ScenarioGroups == groupby_ticker(filter_data(ScenarioPanel).returned)

RegInputs ==
    {groupby_ticker(filter_data(p).returned) : p \in Panels(RegSlots, Len(RegSlots), 0..MaxVal)}
        \cup {ScenarioGroups}

InitReg ==
    /\ pc = "call"
    /\ grouped_data \in RegInputs
    /\ fp_residue = None
    /\ ret = None
    /\ data1 = None
    /\ data2 = None
    /\ data = None
    /\ data_filtered = None
    /\ data_alv = None
    /\ data_tte = None
    /\ data_others = None
    /\ ttest_results_alv_vs_others = None
    /\ ttest_results_tte_vs_others = None
    /\ ttest_results_sm = None
    /\ df_results = None
    /\ output = <<>>
    /\ message = ""

CallPerformTTestsSm ==
    /\ pc = "call"
    /\ \E residue \in [{grouped_data[i].ticker : i \in 1..Len(grouped_data)} -> BOOLEAN] :
          /\ fp_residue' = residue
          /\ ret' = perform_t_tests_sm(grouped_data, metrics, residue)
    /\ pc' = "returned"
    /\ UNCHANGED <<data1, data2, grouped_data, main_unused>>

NextReg == CallPerformTTestsSm

SpecReg == InitReg /\ [][NextReg]_vars

(***************************************************************************)
(* Properties.  What a table holds is read off the tables themselves.      *)
(***************************************************************************)
RowsOf(table) == {table.rows[i] : i \in 1..Len(table.rows)}

NonMissing(table, m) ==
    Cardinality({i \in 1..Len(table.rows) : table.rows[i][m] # NA})

MetricValues(table, m) ==
    LET present == SelectSeq(table.rows, LAMBDA r : r[m] # NA)
    IN [i \in 1..Len(present) |-> present[i][m][1]]

Occurrences(s, v) == Cardinality({i \in 1..Len(s) : s[i] = v})

SameValues(a, b) ==
    /\ Len(a) = Len(b)
    /\ \A i \in 1..Len(a) : Occurrences(a, a[i]) = Occurrences(b, a[i])

AllEqual(a) == \A i, j \in 1..Len(a) : a[i] = a[j]

IndexOf(s, x) == CHOOSE i \in 1..Len(s) : s[i] = x

\* C1: perform_ttests gives, per metric, the string "insufficient data" in both
\* fields exactly when one of the two tables has at most one non-missing value,
\* and a pair of floats otherwise.
C1_SentinelIffTooFew ==
    pc = "returned" =>
        \A i \in 1..Len(metrics) :
            LET few == \/ NonMissing(data1, metrics[i]) <= 1
                       \/ NonMissing(data2, metrics[i]) <= 1
            IN /\ ret[i].metric = metrics[i]
               /\ few => ret[i].t_stat = INSUFFICIENT /\ ret[i].p_value = INSUFFICIENT
               /\ ~few => IsFloat(ret[i].t_stat) /\ IsFloat(ret[i].p_value)

\* a two-row table whose blank leaves one value is insufficient, while another
\* metric of the same call is tested
C1_Witness ==
    /\ pc = "returned"
    /\ Len(data1.rows) = 2
    /\ NonMissing(data1, metrics[1]) = 1
    /\ NonMissing(data2, metrics[1]) >= 2
    /\ ret[1].t_stat = INSUFFICIENT
    /\ IsFloat(ret[2].t_stat)

EntryOf(results, ticker) ==
    results[CHOOSE i \in 1..Len(results) : results[i].ticker = ticker]

OutcomeOf(results, ticker, metric) ==
    LET e == EntryOf(results, ticker)
    IN e.results[CHOOSE j \in 1..Len(e.results) : e.results[j].metric = metric]

\* the rows of a group whose metric is not blank
WithoutMissing(group, m) ==
    [columns |-> group.columns, rows |-> SelectSeq(group.rows, LAMBDA r : r[m] # NA)]

ConstantIndicator(group) ==
    \/ \A i \in 1..Len(group.rows) : group.rows[i]["year"] < BreakYear
    \/ \A i \in 1..Len(group.rows) : group.rows[i]["year"] >= BreakYear

\* C2 as stated: with more than one non-missing value, a group's outcome is
\* the outcome of the same group without the rows whose metric is blank.
C2_MissingRowsExcluded ==
    pc = "returned" =>
        \A i \in 1..Len(grouped_data) : \A j \in 1..Len(metrics) :
            LET g == grouped_data[i]
                m == metrics[j]
                e == regression_outcome(WithoutMissing(g.group, m), m,
                                        fp_residue[g.ticker])
            IN NonMissing(g.group, m) > 1 =>
                   IF e.kind = "raise" THEN ret.raised
                   ELSE /\ ~ret.raised
                        /\ OutcomeOf(ret.value, g.ticker, m).t_stat = e.t_stat
                        /\ OutcomeOf(ret.value, g.ticker, m).p_value = e.p_value

\* C3 as stated: a group whose break indicator is constant gets "insufficient
\* data" for every metric, and the call raises nothing.
C3_ConstantIndicatorInsufficient ==
    pc = "returned" =>
        \A i \in 1..Len(grouped_data) :
            ConstantIndicator(grouped_data[i].group) =>
                /\ ~ret.raised
                /\ \A j \in 1..Len(metrics) :
                       LET o == OutcomeOf(ret.value, grouped_data[i].ticker, metrics[j])
                       IN o.t_stat = INSUFFICIENT /\ o.p_value = INSUFFICIENT

\* C4 as stated: on the end-to-end panel ticker A gets a positive statistic
\* with a finite p-value, ticker B the statistic 0 with p-value 1.
C4_ScenarioDefined ==
    (pc = "returned" /\ grouped_data = ScenarioGroups) =>
        /\ ~ret.raised
        /\ LET a == OutcomeOf(ret.value, "A", metrics[1])
               b == OutcomeOf(ret.value, "B", metrics[1])
           IN /\ a.t_stat.kind = "real" /\ a.t_stat.sign = 1
              /\ IsFinite(a.p_value)
              /\ b.t_stat = Zero
              /\ b.p_value = One

\* C4 amended: on the end-to-end panel both tickers get a pair of floats,
\* not the string, whose p-value is NaN and whose statistic is NaN or 0: two
\* observations leave no residual degree of freedom.
C4_ScenarioUndefined ==
    (pc = "returned" /\ grouped_data = ScenarioGroups) =>
        /\ ~ret.raised
        /\ \A tk \in {"A", "B"} :
               LET o == OutcomeOf(ret.value, tk, metrics[1])
               IN /\ o.t_stat \in {NaN, Zero}
                  /\ o.p_value = NaN

C4_Witness ==
    /\ pc = "returned"
    /\ grouped_data = ScenarioGroups
    /\ ~ret.raised
    /\ OutcomeOf(ret.value, "A", metrics[1]).t_stat = Zero
    /\ OutcomeOf(ret.value, "B", metrics[1]).t_stat = NaN
    /\ OutcomeOf(ret.value, "A", metrics[1]).p_value = NaN

AfterPartition == pc \notin {"filter_data", "partition"}

SubjectGroup(s) == IF s = "ALV.DE" THEN data_alv ELSE data_tte

\* C5: each subject group holds exactly the subject's rows, the others group
\* exactly the rows of neither subject (one group for both subjects); subject
\* and others share no row and together are the rows that are not the other
\* subject's.
C5_Partition ==
    AfterPartition =>
        LET all == RowsOf(data_filtered)
            others == RowsOf(data_others)
        IN /\ others = {r \in all : r["ticker"] \notin Subjects}
           /\ Len(data_others.rows) = Cardinality(others)
           /\ \A s \in Subjects :
                  LET subject == RowsOf(SubjectGroup(s))
                  IN /\ subject = {r \in all : r["ticker"] = s}
                     /\ Len(SubjectGroup(s).rows) = Cardinality(subject)
                     /\ subject \cap others = {}
                     /\ subject \cup others =
                            {r \in all : r["ticker"] \notin (Subjects \ {s})}

\* a panel with rows of both subjects and of another ticker
C5_Witness ==
    /\ AfterPartition
    /\ data_alv.rows # <<>>
    /\ data_tte.rows # <<>>
    /\ data_others.rows # <<>>

Converted == pc \in {"plot", "done", "failed"} /\ df_results # None

\* C6: the table has one row per (ticker, metric) pair of the result mapping,
\* none dropped or repeated, carrying the pair's statistic and p-value.
C6_OneRowPerPair ==
    Converted =>
        /\ Len(df_results.rows) = Len(ttest_results_sm) * Len(metrics)
        /\ \A i \in 1..Len(ttest_results_sm) : \A j \in 1..Len(metrics) :
               LET e == ttest_results_sm[i]
                   hits == {k \in 1..Len(df_results.rows) :
                               /\ df_results.rows[k].Ticker = e.ticker
                               /\ df_results.rows[k].Metric = e.results[j].metric}
               IN /\ Cardinality(hits) = 1
                  /\ \A k \in hits :
                         /\ df_results.rows[k].TStatistic = e.results[j].t_stat
                         /\ df_results.rows[k].PValue = e.results[j].p_value

\* a table of two tickers or more that carries both a float and the string
C6_Witness ==
    /\ Converted
    /\ Len(ttest_results_sm) >= 2
    /\ \E k \in 1..Len(df_results.rows) : df_results.rows[k].TStatistic = INSUFFICIENT
    /\ \E k \in 1..Len(df_results.rows) : IsFloat(df_results.rows[k].TStatistic)

\* C7 as stated: the rows are grouped by metric first, by ticker within a metric.
C7_MetricMajor ==
    Converted =>
        \A k, l \in 1..Len(df_results.rows) :
            k < l =>
                LET a == df_results.rows[k]
                    b == df_results.rows[l]
                IN \/ IndexOf(metrics, a.Metric) < IndexOf(metrics, b.Metric)
                   \/ /\ a.Metric = b.Metric
                      /\ IndexOf(TickerOrder, a.Ticker) < IndexOf(TickerOrder, b.Ticker)

\* C7 amended: the rows are grouped by ticker first (tickers in sorted order),
\* by metric, in the order of the metric list, within a ticker.
C7_TickerMajor ==
    Converted =>
        \A k, l \in 1..Len(df_results.rows) :
            k < l =>
                LET a == df_results.rows[k]
                    b == df_results.rows[l]
                IN \/ IndexOf(TickerOrder, a.Ticker) < IndexOf(TickerOrder, b.Ticker)
                   \/ /\ a.Ticker = b.Ticker
                      /\ IndexOf(metrics, a.Metric) < IndexOf(metrics, b.Metric)

C7_Witness ==
    /\ Converted
    /\ Len(ttest_results_sm) >= 2
    /\ Len(df_results.rows) >= 2 * Len(metrics)
    /\ df_results.rows[1].Ticker = df_results.rows[2].Ticker
    /\ df_results.rows[1].Metric # df_results.rows[2].Metric

\* C8: filter_data returns a table whose every row has pre_post_2016 = 1 from
\* 2016 on and 0 before, and the table it was given is as it was: its columns,
\* in_index6 among them, and no pre_post_2016.
C8_FilterDataPure ==
    [][pc = "filter_data" =>
          /\ data' = data
          /\ "in_index6" \in data'.columns
          /\ "pre_post_2016" \notin data'.columns
          /\ "in_index6" \notin data_filtered'.columns
          /\ Len(data_filtered'.rows) = Len(data.rows)
          /\ \A i \in 1..Len(data.rows) :
                 /\ data_filtered'.rows[i]["pre_post_2016"] =
                        (IF data.rows[i]["year"] >= 2016 THEN 1 ELSE 0)
                 /\ \A c \in data.columns \ {"in_index6"} :
                        data_filtered'.rows[i][c] = data.rows[i][c]]_vars

\* filter_data has run on rows of both sides of the break
C8_Witness ==
    /\ pc = "partition"
    /\ \E i \in 1..Len(data_filtered.rows) : data_filtered.rows[i]["pre_post_2016"] = 0
    /\ \E i \in 1..Len(data_filtered.rows) : data_filtered.rows[i]["pre_post_2016"] = 1
    /\ "in_index6" \in data.columns

\* C10 as stated: a run in which some (ticker, metric) pair came out as
\* "insufficient data" is not aborted: it ends with every pair's outcome in
\* the table and every metric's chart and table written.
C10_InsufficiencyNeverAborts ==
    (/\ pc \in {"done", "failed"}
     /\ df_results # None
     /\ \E k \in 1..Len(df_results.rows) : df_results.rows[k].TStatistic = INSUFFICIENT)
        => /\ pc = "done"
           /\ \A m \in MetricSet :
                  \E k \in 1..Len(output) : output[k].stem = m /\ output[k].ext = "csv"

====
